---- MODULE Spec2Model ----
(***************************************************************************)
(* A model of src/scraper.py: the field extractor (_set_dict_value), the   *)
(* item page parser (get_book_data), the page-count resolver               *)
(* (_get_pages_count), the page worker (_parse_page) and the orchestrator  *)
(* (scrape_books) with its batches of threads.                             *)
(*                                                                         *)
(* Texts are sequences of one-character strings.  A call that raises is    *)
(* modelled by a result whose exc field names the exception; exc = "none"  *)
(* is a normal return.                                                     *)
(***************************************************************************)
EXTENDS Integers, Sequences, FiniteSets, Bags, TLC

\* ------------------------------------------------------------- bounds

\* Width of a batch.  The source sets 25 (scraper.py line 264); the model
\* runs the same loops with a narrower batch.
threads_number == 2

\* Largest page count the pagination indicator announces.
MaxPages == 3

\* Largest number of item headings in the whole catalog.
MaxHeadings == 2

\* Longest node text handed to the numeric extraction.
MaxTextLen == 4

\* Number of calls of scrape_books in one behaviour.
MaxRuns == 2

\* ------------------------------------------------------------- texts

Digits == {"1", "2"}

Chars == Digits \cup {".", "x"}

RECURSIVE TextsUpTo(_)
TextsUpTo(n) ==
  IF n = 0 THEN {<< >>}
  ELSE LET shorter == TextsUpTo(n - 1)
       IN  shorter \cup {Append(t, c) : t \in {s \in shorter : Len(s) = n - 1}, c \in Chars}

Texts == TextsUpTo(MaxTextLen)

DigitVal(c) == IF c = "1" THEN 1 ELSE 2

\* str.strip(): leading and trailing blanks removed.
RECURSIVE lstrip(_)
lstrip(t) == IF t # << >> /\ Head(t) = " " THEN lstrip(Tail(t)) ELSE t

RECURSIVE rstrip(_)
rstrip(t) ==
  IF t # << >> /\ t[Len(t)] = " " THEN rstrip(SubSeq(t, 1, Len(t) - 1)) ELSE t

strip(t) == rstrip(lstrip(t))

\* ---------------------------------------------- _number_pattern, float, int

InNumberClass(c) == c \in Digits \cup {"."}

\* The longest prefix of t made of characters of [\d.]
RECURSIVE RunPrefix(_)
RunPrefix(t) ==
  IF t # << >> /\ InNumberClass(Head(t)) THEN << Head(t) >> \o RunPrefix(Tail(t))
  ELSE << >>

\* re.search(_number_pattern, text).group(): the leftmost, longest run of
\* characters of [\d.]; << >> stands for "no match" (the pattern needs one
\* character at least, so a match is never empty).
RECURSIVE number_search(_)
number_search(t) ==
  IF t = << >> THEN << >>
  ELSE IF InNumberClass(Head(t)) THEN RunPrefix(t)
  ELSE number_search(Tail(t))

CountDots(m) == Cardinality({i \in 1..Len(m) : m[i] = "."})

CountDigits(m) == Cardinality({i \in 1..Len(m) : m[i] \in Digits})

\* The digits of m read as a decimal numeral, dots passed over.
RECURSIVE DigitsValue(_)
DigitsValue(m) ==
  IF m = << >> THEN 0
  ELSE LET last == m[Len(m)]
           rest == SubSeq(m, 1, Len(m) - 1)
       IN  IF last = "." THEN DigitsValue(rest)
           ELSE 10 * DigitsValue(rest) + DigitVal(last)

DotPos(m) == CHOOSE i \in 1..Len(m) : m[i] = "."

NoValue == [kind |-> "none", num |-> 0, scale |-> 0]

IntValue(n) == [kind |-> "int", num |-> n, scale |-> 0]

\* The float num / 10^scale.
FloatValue(n, s) == [kind |-> "float", num |-> n, scale |-> s]

\* float(s) on a string of digits and dots: one dot and one digit at least,
\* anything else is a ValueError.
py_float(m) ==
  IF CountDots(m) = 1 /\ CountDigits(m) >= 1
  THEN [exc |-> "none", val |-> FloatValue(DigitsValue(m), Len(m) - DotPos(m))]
  ELSE [exc |-> "ValueError", val |-> NoValue]

\* int(s) on a string of digits.
py_int(m) ==
  IF CountDots(m) = 0 /\ CountDigits(m) >= 1
  THEN [exc |-> "none", val |-> IntValue(DigitsValue(m))]
  ELSE [exc |-> "ValueError", val |-> NoValue]

\* _set_dict_value, data_type == 'number' (lines 62-64): the value to store,
\* NoValue when there is no match, or the exception the conversion raises.
extract_number(text) ==
  LET m == number_search(text)
  IN  IF m = << >> THEN [exc |-> "none", val |-> NoValue]
      ELSE IF CountDots(m) > 0 THEN py_float(m)
      ELSE py_int(m)

\* ------------------------------------------------------------- elements

\* A Tag found by get_tag, or None (present = FALSE).
Elem(text, class) == [present |-> TRUE, text |-> text, class |-> class]

NoTag == [present |-> FALSE, text |-> << >>, class |-> << >>]

\* str.lower() on the class tokens the model uses.
lower(tok) ==
  CASE tok = "Three" -> "three"
    [] tok = "One" -> "one"
    [] tok = "FIVE" -> "five"
    [] OTHER -> tok

stars_count == << "zero", "one", "two", "three", "four", "five" >>

\* stars_count.index(rating), counted from 0.
stars_index(r) == (CHOOSE i \in 1..Len(stars_count) : stars_count[i] = r) - 1

\* data[key] = value
DictSet(d, k, v) == (k :> v) @@ d

EmptyDict == [x \in {} |-> << >>]

_set_dict_value(data, key, element, data_type) ==
  IF ~element.present THEN [exc |-> "none", data |-> data]
  ELSE IF data_type \notin {"text", "number", "rating"}
  THEN [exc |-> "none", data |-> data]
  ELSE IF data_type = "text"
  THEN [exc |-> "none", data |-> DictSet(data, key, strip(element.text))]
  ELSE IF data_type = "number"
  THEN LET r == extract_number(element.text)
       IN  IF r.exc # "none" THEN [exc |-> r.exc, data |-> data]
           ELSE IF r.val.kind = "none" THEN [exc |-> "none", data |-> data]
           ELSE [exc |-> "none", data |-> DictSet(data, key, r.val)]
  ELSE IF Len(element.class) < 2 THEN [exc |-> "IndexError", data |-> data]
  ELSE LET rating == lower(element.class[2])
       IN  IF \E i \in 1..Len(stars_count) : stars_count[i] = rating
           THEN [exc |-> "none", data |-> DictSet(data, key, stars_index(rating))]
           ELSE [exc |-> "none", data |-> data]

\* One more call of _set_dict_value in a sequence of calls: an exception of
\* an earlier call ends the sequence.
Then(res, key, element, data_type) ==
  IF res.exc # "none" THEN res ELSE _set_dict_value(res.data, key, element, data_type)

\* get_rows: rows is a sequence of table rows, each with its th and its td.
RECURSIVE get_rows(_)
get_rows(rows) ==
  IF rows = << >> THEN EmptyDict
  ELSE LET before == get_rows(SubSeq(rows, 1, Len(rows) - 1))
           row == rows[Len(rows)]
       IN  IF row.th.present
           THEN _set_dict_value(before, row.th.text, row.td, "text").data
           ELSE before

\* ------------------------------------------------------------ get_book_data

Fields == {"title", "price", "rating", "available", "description", "additional_info"}

DefaultRecord ==
  [title |-> << >>, price |-> IntValue(0), rating |-> 0, available |-> IntValue(0),
   description |-> << >>, additional_info |-> EmptyDict]

NoTable == [present |-> FALSE, rows |-> << >>]

\* An item page as the fetch and the parse of its URL give it: the outcome of
\* requests.get and raise_for_status, and the nodes get_tag finds.
ItemPage(fetch, root, main, h1, p, star, price, stock, table) ==
  [fetch |-> fetch, root |-> root, main |-> main, h1 |-> h1, p |-> p,
   star |-> star, price |-> price, stock |-> stock, table |-> table]

\* Lines 129-156: the parse of a fetched page into data.
parse_item(data, page) ==
  IF ~page.root THEN [exc |-> "none", data |-> data]
  ELSE IF ~page.main THEN [exc |-> "none", data |-> data]
  ELSE LET r1 == _set_dict_value(data, "title", page.h1, "text")
           r2 == Then(r1, "description", page.p, "text")
           r3 == Then(r2, "price", page.price, "number")
           r4 == Then(r3, "available", page.stock, "number")
           r5 == Then(r4, "rating", page.star, "rating")
       IN  IF r5.exc # "none" THEN r5
           ELSE IF page.table.present
           THEN [exc |-> "none",
                 data |-> DictSet(r5.data, "additional_info", get_rows(page.table.rows))]
           ELSE r5

\* Lines 112-127: the fresh defaults, the fetch, and the status check, which
\* raise what requests raises.
fetch_and_parse(data, page) ==
  IF page.fetch = "conn_error" THEN [exc |-> "ConnectionError", data |-> data]
  ELSE IF page.fetch = "http_error" THEN [exc |-> "HTTPError", data |-> data]
  ELSE parse_item(data, page)

\* ------------------------------------------------------------- the catalog

\* A heading of a listing: link is "no_anchor" (get_tag finds no <a>),
\* "no_href" (the anchor has no href attribute), "empty_href" (href="") or
\* "href"; item is the page its href leads to.
Heading(link, item) == [link |-> link, item |-> item]

Unreachable ==
  ItemPage("conn_error", FALSE, FALSE, NoTag, NoTag, NoTag, NoTag, NoTag, NoTable)

NoRoot == ItemPage("ok", FALSE, FALSE, NoTag, NoTag, NoTag, NoTag, NoTag, NoTable)

NoMain == ItemPage("ok", TRUE, FALSE, NoTag, Elem(<< "x" >>, << >>), NoTag, NoTag, NoTag, NoTable)

BookTable ==
  [present |-> TRUE,
   rows |-> << [th |-> Elem(<< "x" >>, << >>), td |-> Elem(<< " ", "1" >>, << >>)],
               [th |-> NoTag, td |-> Elem(<< "2" >>, << >>)],
               [th |-> Elem(<< "x", "x" >>, << >>), td |-> NoTag] >>]

Book ==
  ItemPage("ok", TRUE, TRUE,
           Elem(<< " ", "x", " " >>, << >>),
           Elem(<< "x", "." >>, << >>),
           Elem(<< >>, << "star-rating", "Three" >>),
           Elem(<< "x", "1", ".", "2" >>, << "price_color" >>),
           Elem(<< "x", "2", "2", "x" >>, << "instock", "availability" >>),
           BookTable)

CrawlItems == {Unreachable, NoRoot, NoMain, Book}

Headings ==
  {Heading(l, NoRoot) : l \in {"no_anchor", "no_href", "empty_href"}}
    \cup {Heading("href", it) : it \in CrawlItems}

\* A catalog page as _get_page_soup and get_tag(soup, 'ol', 'row') give it.
Page(fetch, ol, headings) == [fetch |-> fetch, ol |-> ol, headings |-> headings]

FailedPage == Page("fail", FALSE, << >>)

NoListPage == Page("ok", FALSE, << >>)

RECURSIVE HeadingSeqs(_)
HeadingSeqs(n) ==
  IF n = 0 THEN {<< >>}
  ELSE {Append(hs, h) : hs \in HeadingSeqs(n - 1), h \in Headings}

PagesUpTo(b) ==
  {FailedPage, NoListPage} \cup {Page("ok", TRUE, hs) : hs \in UNION {HeadingSeqs(n) : n \in 0..b}}

\* The sequences of n pages with b headings at most between them.
RECURSIVE PageSeqs(_, _)
PageSeqs(n, b) ==
  IF n = 0 THEN {<< >>}
  ELSE UNION {{<< d >> \o rest : rest \in PageSeqs(n - 1, b - Len(d.headings))} :
                d \in PagesUpTo(b)}

\* The pagination indicator of page 1: get_tag(soup, 'li', 'current') and
\* the match of 'of (\d+)' in its text.
Current(kind, n) == [kind |-> kind, n |-> n]

\* The catalogs a run is checked against.  The indicator announces the pages
\* that exist (a page past the last one is a 404, which FailedPage covers); a
\* catalog whose first page fails, or whose indicator is missing or does not
\* match, has that one page.
Catalogs ==
  {[pages |-> ps, current |-> Current("of", Len(ps))] :
     ps \in {q \in UNION {PageSeqs(n, MaxHeadings) : n \in 1..MaxPages} :
               Len(q) = 1 \/ q[1].fetch = "ok"}}
    \cup {[pages |-> ps, current |-> Current(k, 0)] :
            ps \in {q \in PageSeqs(1, MaxHeadings) : q[1].fetch = "ok"},
            k \in {"absent", "nomatch"}}

\* ------------------------------------------------------------- state

VARIABLES
  catalog,      \* the site: its catalog pages and the pagination indicator
  pc,           \* where the thread that runs scrape_books is
  is_save,      \* scrape_books' argument
  pages_count,  \* scrape_books' pages_count
  page_number,  \* the outer loop's page_number
  workers,      \* every Thread created in this run: its page and where it is
  threads,      \* scrape_books' threads: the Threads of the current batch
  idx,          \* the index of the start loop and of the join loop
  books_data,   \* the shared list
  pbar,         \* the progress bar: its total and its count
  file,         \* books_data.txt
  run,          \* the number of this call of scrape_books
  prev,         \* the records the call before returned
  arg_text,     \* a node text for the field extractor
  arg_page,     \* an item page for get_book_data
  ret           \* what the call on arg_text or arg_page gave

vars ==
  << catalog, pc, is_save, pages_count, page_number, workers, threads, idx,
     books_data, pbar, file, run, prev, arg_text, arg_page, ret >>

crawl_vars ==
  << catalog, pc, is_save, pages_count, page_number, workers, threads, idx,
     books_data, pbar, file, run, prev >>

extract_vars == << arg_text, arg_page, ret >>

NoRet == [op |-> "none", exc |-> "none", data |-> DefaultRecord]

\* ------------------------------------------------------------- get_book_data

\* Mutation: data is one dict shared by the calls, so a call starts from what
\* the call before left (here: the record appended last).
get_book_data_shared(page) ==
  fetch_and_parse(IF books_data = << >> THEN DefaultRecord
                  ELSE books_data[Len(books_data)], page)

get_book_data(page) == fetch_and_parse(DefaultRecord, page)

\* ------------------------------------------------------------- _get_pages_count

\* requests.get of page-<n>.html: a page past the last one does not exist.
PageAt(cat, n) == IF n \in 1..Len(cat.pages) THEN cat.pages[n] ELSE FailedPage

_get_pages_count(cat) ==
  IF PageAt(cat, 1).fetch # "ok" THEN 0
  ELSE IF cat.current.kind = "absent" THEN 0
  ELSE IF cat.current.kind = "nomatch" THEN 0
  ELSE cat.current.n

\* ------------------------------------------------------------- scrape_books

Thread(page) == [page |-> page, status |-> "created", pos |-> 0, exc |-> "none"]

\* Mutation: the inner loop without its break.
RECURSIVE batch_pages_no_break(_, _, _)
batch_pages_no_break(first, count, shift) ==
  IF shift >= threads_number THEN << >>
  ELSE << first + shift >> \o batch_pages_no_break(first, count, shift + 1)

\* The inner loop of lines 278-285: the pages of the batch that starts at
\* page_number, from shift on.
RECURSIVE batch_pages(_, _, _)
batch_pages(first, count, shift) ==
  IF shift >= threads_number THEN << >>
  ELSE IF first + shift > count THEN << >>
  ELSE << first + shift >> \o batch_pages(first, count, shift + 1)

\* tqdm.__bool__: a bar with a total is true when the total is positive.
pbar_true(bar) == bar.total > 0

\* list.append
list_append(list, item) == Append(list, item)

RECURSIVE BagOf(_)
BagOf(list) ==
  IF list = << >> THEN EmptyBag ELSE BagOf(Tail(list)) (+) SetToBag({Head(list)})

\* The call of scrape_books, lines 264-267: the first by the tests
\* (scrape_books()), the later ones by the schedule (scrape_books(True)).
StartRun ==
  /\ pc = "idle"
  /\ is_save' = (run > 1)
  /\ books_data' = << >>
  /\ pc' = "resolving"
  /\ UNCHANGED << catalog, pages_count, page_number, workers, threads, idx, pbar,
                  file, run, prev, extract_vars >>

\* Lines 270-272: the page count, and the progress bar made with it.
ResolvePageCount ==
  /\ pc = "resolving"
  /\ pages_count' = _get_pages_count(catalog)
  /\ pbar' = [total |-> pages_count', n |-> 0]
  /\ page_number' = 1
  /\ pc' = "batch"
  /\ UNCHANGED << catalog, is_save, workers, threads, idx, books_data, file, run,
                  prev, extract_vars >>

\* Lines 274-285: one more turn of the outer loop; the Threads of the batch.
CreateBatch ==
  /\ pc = "batch"
  /\ page_number <= pages_count
  /\ LET pages == batch_pages(page_number, pages_count, 0)
     IN  /\ workers' = workers \o [i \in 1..Len(pages) |-> Thread(pages[i])]
         /\ threads' = [i \in 1..Len(pages) |-> Len(workers) + i]
  /\ idx' = 1
  /\ pc' = "start"
  /\ UNCHANGED << catalog, is_save, pages_count, page_number, books_data, pbar,
                  file, run, prev, extract_vars >>

\* Lines 287-288: thread.start() of the next Thread of the batch.
StartThread ==
  /\ pc = "start"
  /\ idx <= Len(threads)
  /\ workers' = [workers EXCEPT ![threads[idx]].status = "fetching"]
  /\ idx' = idx + 1
  /\ UNCHANGED << catalog, pc, is_save, pages_count, page_number, threads,
                  books_data, pbar, file, run, prev, extract_vars >>

\* The start loop is over: on to the join loop.
StartsDone ==
  /\ pc = "start"
  /\ idx > Len(threads)
  /\ idx' = 1
  /\ pc' = "join"
  /\ UNCHANGED << catalog, is_save, pages_count, page_number, workers, threads,
                  books_data, pbar, file, run, prev, extract_vars >>

Ended(w) == w.status \in {"finished", "died"}

\* Mutation: join returns only for a Thread whose target returned.
join_returns_if_clean(w) == w.status = "finished"

\* Mutation: join does not wait.
join_returns_at_once(w) == TRUE

\* thread.join() returns once the Thread has ended.
join_returns(w) == Ended(w)

\* Lines 290-291: thread.join() of the next Thread of the batch.
JoinThread ==
  /\ pc = "join"
  /\ idx <= Len(threads)
  /\ join_returns(workers[threads[idx]])
  /\ idx' = idx + 1
  /\ UNCHANGED << catalog, pc, is_save, pages_count, page_number, workers, threads,
                  books_data, pbar, file, run, prev, extract_vars >>

\* The join loop is over: the outer loop steps by threads_number.
JoinsDone ==
  /\ pc = "join"
  /\ idx > Len(threads)
  /\ page_number' = page_number + threads_number
  /\ pc' = "batch"
  /\ UNCHANGED << catalog, is_save, pages_count, workers, threads, idx, books_data,
                  pbar, file, run, prev, extract_vars >>

\* The outer loop is over: lines 293-302, the file when is_save, the return.
Finish ==
  /\ pc = "batch"
  /\ page_number > pages_count
  /\ file' = IF is_save THEN [written |-> TRUE, content |-> books_data] ELSE file
  /\ pc' = "done"
  /\ UNCHANGED << catalog, is_save, pages_count, page_number, workers, threads, idx,
                  books_data, pbar, run, prev, extract_vars >>

\* run_autoscreping, lines 313-316: the schedule calls scrape_books again.
Reschedule ==
  /\ pc = "done"
  /\ run < MaxRuns
  /\ run' = run + 1
  /\ prev' = BagOf(books_data)
  /\ workers' = << >>
  /\ threads' = << >>
  /\ idx' = 1
  /\ pc' = "idle"
  /\ UNCHANGED << catalog, is_save, pages_count, page_number, books_data, pbar,
                  file, extract_vars >>

\* ------------------------------------------------------------- _parse_page

\* Lines 214-222: the fetch of the catalog page and its listing container.
FetchCatalogPage(i) ==
  /\ i \in 1..Len(workers)
  /\ workers[i].status = "fetching"
  /\ LET doc == PageAt(catalog, workers[i].page)
     IN  workers' =
           IF doc.fetch # "ok" THEN [workers EXCEPT ![i].status = "finished"]
           ELSE IF ~doc.ol THEN [workers EXCEPT ![i].status = "finished"]
           ELSE [workers EXCEPT ![i].status = "headings", ![i].pos = 1]
  /\ UNCHANGED << catalog, pc, is_save, pages_count, page_number, threads, idx,
                  books_data, pbar, file, run, prev, extract_vars >>

\* get_book_data on each item page of the catalogs.
book_data_of == [it \in CrawlItems |-> get_book_data(it)]

\* Mutation: an exception of get_book_data is caught and the defaults appended.
heading_outcome_caught(h) ==
  IF h.link = "no_anchor" THEN [exc |-> "none", skip |-> TRUE, data |-> DefaultRecord]
  ELSE IF h.link = "no_href" THEN [exc |-> "KeyError", skip |-> FALSE, data |-> DefaultRecord]
  ELSE IF h.link = "empty_href" THEN [exc |-> "none", skip |-> TRUE, data |-> DefaultRecord]
  ELSE [exc |-> "none", skip |-> FALSE, data |-> book_data_of[h.item].data]

\* Lines 229-241 on one heading: "skip" (continue), an exception that ends the
\* thread, or the record to append.
heading_outcome(h) ==
  IF h.link = "no_anchor" THEN [exc |-> "none", skip |-> TRUE, data |-> DefaultRecord]
  ELSE IF h.link = "no_href" THEN [exc |-> "KeyError", skip |-> FALSE, data |-> DefaultRecord]
  ELSE IF h.link = "empty_href" THEN [exc |-> "none", skip |-> TRUE, data |-> DefaultRecord]
  ELSE LET r == book_data_of[h.item]
       IN  [exc |-> r.exc, skip |-> FALSE, data |-> r.data]

\* Lines 224-241: one turn of the loop over the headings.
ProcessHeading(i) ==
  /\ i \in 1..Len(workers)
  /\ workers[i].status = "headings"
  /\ LET doc == PageAt(catalog, workers[i].page)
         pos == workers[i].pos
     IN  /\ pos <= Len(doc.headings)
         /\ LET o == heading_outcome(doc.headings[pos])
            IN  IF o.exc # "none"
                THEN /\ workers' = [workers EXCEPT ![i].status = "died", ![i].exc = o.exc]
                     /\ UNCHANGED books_data
                ELSE /\ workers' = [workers EXCEPT ![i].pos = pos + 1]
                     /\ books_data' = IF o.skip THEN books_data
                                      ELSE list_append(books_data, o.data)
  /\ UNCHANGED << catalog, pc, is_save, pages_count, page_number, threads, idx,
                  pbar, file, run, prev, extract_vars >>

\* Lines 243-244: the tick, after the last heading.
Tick(i) ==
  /\ i \in 1..Len(workers)
  /\ workers[i].status = "headings"
  /\ workers[i].pos > Len(PageAt(catalog, workers[i].page).headings)
  /\ pbar' = IF pbar_true(pbar) THEN [pbar EXCEPT !.n = pbar.n + 1] ELSE pbar
  /\ workers' = [workers EXCEPT ![i].status = "finished"]
  /\ UNCHANGED << catalog, pc, is_save, pages_count, page_number, threads, idx,
                  books_data, file, run, prev, extract_vars >>

MainStep ==
  \/ StartRun
  \/ ResolvePageCount
  \/ CreateBatch
  \/ StartThread
  \/ StartsDone
  \/ JoinThread
  \/ JoinsDone
  \/ Finish
  \/ Reschedule

WorkerStep(i) ==
  \/ FetchCatalogPage(i)
  \/ ProcessHeading(i)
  \/ Tick(i)

Init ==
  /\ catalog \in Catalogs
  /\ pc = "idle"
  /\ is_save = FALSE
  /\ pages_count = 0
  /\ page_number = 1
  /\ workers = << >>
  /\ threads = << >>
  /\ idx = 1
  /\ books_data = << >>
  /\ pbar = [total |-> 0, n |-> 0]
  /\ file = [written |-> FALSE, content |-> << >>]
  /\ run = 1
  /\ prev = EmptyBag
  /\ arg_text = << >>
  /\ arg_page = NoRoot
  /\ ret = NoRet

Next ==
  \/ MainStep
  \/ \E i \in 1..MaxPages : WorkerStep(i)

Spec == Init /\ [][Next]_vars

\* The threads run on: while some thread can take a step, one does.
FairSpec == Spec /\ WF_vars(Next)

\* ------------------------------------------------- the functions on their own

StarElems ==
  {NoTag, Elem(<< >>, << "star-rating", "Three" >>), Elem(<< >>, << "star-rating", "FIVE" >>),
   Elem(<< >>, << "star-rating", "Six" >>)}

PriceElems == {NoTag} \cup {Elem(t, << "price_color" >>) : t \in TextsUpTo(2)}

\* The item pages get_book_data is applied to.
ItemPages ==
  {ItemPage(f, r, m, h, d, s, p, a, t) :
     f \in {"ok", "conn_error", "http_error"}, r \in BOOLEAN, m \in BOOLEAN,
     h \in {NoTag, Book.h1}, d \in {NoTag, Book.p}, s \in StarElems, p \in PriceElems,
     a \in {NoTag, Book.stock}, t \in {NoTable, BookTable}}

InitExtract ==
  /\ \/ arg_text \in Texts /\ arg_page = NoRoot
     \/ arg_text = << >> /\ arg_page \in ItemPages
  /\ ret = NoRet
  /\ catalog = [pages |-> << FailedPage >>, current |-> Current("absent", 0)]
  /\ pc = "idle"
  /\ is_save = FALSE
  /\ pages_count = 0
  /\ page_number = 1
  /\ workers = << >>
  /\ threads = << >>
  /\ idx = 1
  /\ books_data = << >>
  /\ pbar = [total |-> 0, n |-> 0]
  /\ file = [written |-> FALSE, content |-> << >>]
  /\ run = 1
  /\ prev = EmptyBag

\* _set_dict_value(data, 'price', element, 'number') on a node with arg_text.
CallNumber ==
  /\ ret.op = "none"
  /\ LET r == _set_dict_value(DefaultRecord, "price", Elem(arg_text, << >>), "number")
     IN  ret' = [op |-> "number", exc |-> r.exc, data |-> r.data]
  /\ UNCHANGED << arg_text, arg_page, crawl_vars >>

\* get_book_data(book_url) where the URL leads to arg_page.
CallGetBookData ==
  /\ ret.op = "none"
  /\ LET r == get_book_data(arg_page)
     IN  ret' = [op |-> "book", exc |-> r.exc, data |-> r.data]
  /\ UNCHANGED << arg_text, arg_page, crawl_vars >>

NextExtract ==
  \/ CallNumber
  \/ CallGetBookData

SpecExtract == InitExtract /\ [][NextExtract]_vars

\* ------------------------------------------------------------- the claims

Range(f) == {f[i] : i \in DOMAIN f}

InFlight == {i \in 1..Len(workers) : workers[i].status \in {"fetching", "headings"}}

\* The pages of this run whose fetch gave a listing container.
ListedPages == {p \in 1..pages_count : PageAt(catalog, p).fetch = "ok" /\ PageAt(catalog, p).ol}

\* The headings of a page that carry an item URL.
ItemUrls(doc) == {k \in 1..Len(doc.headings) : doc.headings[k].link = "href"}

\* The sum of f over 1..n.
RECURSIVE SumTo(_, _)
SumTo(f(_), n) == IF n = 0 THEN 0 ELSE SumTo(f, n - 1) + f(n)

UrlsOfPage(p) == IF p \in ListedPages THEN Cardinality(ItemUrls(PageAt(catalog, p))) ELSE 0

\* A heading at which lines 229-241 raise.
Raises(h) ==
  \/ h.link = "no_href"
  \/ h.link = "href" /\ fetch_and_parse(DefaultRecord, h.item).exc # "none"

\* The headings of a page the loop gets to: those with no raising heading before.
Reached(doc) == {k \in 1..Len(doc.headings) : \A j \in 1..(k - 1) : ~Raises(doc.headings[j])}

\* The records of the item pages of page p that the loop gets to and that
\* get_book_data returns for.
RECURSIVE RecordsFrom(_, _)
RecordsFrom(doc, k) ==
  IF k = 0 THEN EmptyBag
  ELSE LET h == doc.headings[k]
       IN  IF k \in Reached(doc) /\ h.link = "href" /\ ~Raises(h)
           THEN RecordsFrom(doc, k - 1) (+) SetToBag({fetch_and_parse(DefaultRecord, h.item).data})
           ELSE RecordsFrom(doc, k - 1)

RECURSIVE RecordsOfPages(_)
RecordsOfPages(n) ==
  IF n = 0 THEN EmptyBag
  ELSE IF n \in ListedPages
  THEN RecordsOfPages(n - 1) (+) RecordsFrom(PageAt(catalog, n), Len(PageAt(catalog, n).headings))
  ELSE RecordsOfPages(n - 1)

\* The records of the item pages that parse in full, reached or not.
RECURSIVE ParsedFrom(_, _)
ParsedFrom(doc, k) ==
  IF k = 0 THEN EmptyBag
  ELSE LET h == doc.headings[k]
       IN  IF h.link = "href" /\ h.item.fetch = "ok" /\ h.item.root /\ h.item.main /\ ~Raises(h)
           THEN ParsedFrom(doc, k - 1) (+) SetToBag({fetch_and_parse(DefaultRecord, h.item).data})
           ELSE ParsedFrom(doc, k - 1)

RECURSIVE ParsedOfPages(_)
ParsedOfPages(n) ==
  IF n = 0 THEN EmptyBag
  ELSE IF n \in ListedPages
  THEN ParsedOfPages(n - 1) (+) ParsedFrom(PageAt(catalog, n), Len(PageAt(catalog, n).headings))
  ELSE ParsedOfPages(n - 1)

\* No heading of a listed page raises.
NothingRaises ==
  \A p \in ListedPages : \A k \in 1..Len(PageAt(catalog, p).headings) :
    ~Raises(PageAt(catalog, p).headings[k])

\* Every anchor of a listed page has its href attribute.
EveryAnchorHasHref ==
  \A p \in ListedPages : \A k \in 1..Len(PageAt(catalog, p).headings) :
    PageAt(catalog, p).headings[k].link # "no_href"

\* C1: get_book_data returns a Record for every URL: it raises nothing, the
\* Record has the six fields, and it is the all-defaults Record when the fetch
\* failed.
C1_AlwaysReturnsRecord ==
  ret.op = "book" =>
    /\ ret.exc = "none"
    /\ DOMAIN ret.data = Fields
    /\ (arg_page.fetch # "ok" => ret.data = DefaultRecord)

\* C2: when the run is done, every item URL found on a catalog page that was
\* fetched with its listing has contributed exactly one Record, whatever
\* happened to the other items and pages (stated for the catalogs whose
\* anchors all have an href, so that the loop finds every item URL).
C2_OneRecordPerItemUrl ==
  (pc = "done" /\ EveryAnchorHasHref) => Len(books_data) = SumTo(UrlsOfPage, pages_count)

\* C3: a run that has begun reaches Done, and every Thread that was started
\* ends, whatever the pages and the items give.
C3_RunCompletes ==
  (pc = "resolving") ~> (pc = "done" /\ \A i \in 1..Len(workers) : Ended(workers[i]))

\* A run is done although a Thread died and a catalog page failed.
C3_Witness ==
  /\ pc = "done"
  /\ \E i \in 1..Len(workers) : workers[i].status = "died"
  /\ \E i \in 1..Len(workers) : PageAt(catalog, workers[i].page).fetch # "ok"

\* C4: at most threads_number Threads are in flight, and a Thread that is not
\* of the current batch has ended: no batch starts before the one before it
\* is over.
C4_BoundedBatches ==
  /\ Cardinality(InFlight) <= threads_number
  /\ \A i \in 1..Len(workers) : i \notin Range(threads) => Ended(workers[i])

\* A Thread of a later batch is in flight.
C4_Witness ==
  /\ Len(workers) > Len(threads)
  /\ \E i \in Range(threads) : i \in InFlight

\* C5: when the run is done the progress count is the page count: one tick
\* for each page, whatever the page gave.
C5_OneTickPerPage == pc = "done" => pbar.n = pages_count

\* C6: a second run against the same catalog returns the same multiset of
\* Records as the first, whatever the interleavings of the two runs.
C6_SameMultiset == (run > 1 /\ pc = "done") => BagOf(books_data) = prev

\* A second run is done with two different Records at least.
C6_Witness ==
  /\ run > 1
  /\ pc = "done"
  /\ Len(books_data) >= 2
  /\ \E i, j \in 1..Len(books_data) : books_data[i] # books_data[j]

C8_Partition ==
  /\ \A i \in 1..Len(workers) : workers[i].page \in 1..pages_count
  /\ \A i, j \in 1..Len(workers) : i # j => workers[i].page # workers[j].page
  /\ Len(threads) <= threads_number
  /\ \A k \in 1..(Len(threads) - 1) :
       workers[threads[k + 1]].page = workers[threads[k]].page + 1
  /\ (pc = "done" => {workers[i].page : i \in 1..Len(workers)} = 1..pages_count)
  /\ (pc \in {"batch", "start", "join", "done"} /\ pages_count = 0
        => workers = << >> /\ books_data = << >>)

\* A run of more than one batch is done.
C8_Witness ==
  /\ pc = "done"
  /\ pages_count > threads_number
  /\ Len(workers) = pages_count

\* C9: no Thread ends at a heading whose anchor, or whose href, is missing:
\* such a heading is passed over and the loop goes on.
C9_MissingLinkSkipped ==
  \A i \in 1..Len(workers) :
    workers[i].status = "died" =>
      PageAt(catalog, workers[i].page).headings[workers[i].pos].link
        \notin {"no_anchor", "no_href"}

\* C10: the numeric extraction raises nothing; it leaves the field alone when
\* the text has no character of a number, and else stores a float when the
\* first run of such characters has a decimal point and an integer when not.
C10_NumericNeverRaises ==
  ret.op = "number" =>
    /\ ret.exc = "none"
    /\ LET m == number_search(arg_text)
       IN  IF m = << >> THEN ret.data.price = DefaultRecord.price
           ELSE ret.data.price.kind = (IF CountDots(m) > 0 THEN "float" ELSE "int")

====
